---------------------------- MODULE Spec2Model ----------------------------
(***************************************************************************)
(* Admission and usage accounting of the /generate command of bot.py.     *)
(*                                                                         *)
(* The bot is one asyncio event loop: a handler runs without interruption  *)
(* from one await to the next, and every handler invocation is a task of   *)
(* its own.  generate_image awaits at line 229/237 (rejection reply), 253  *)
(* (defer), 260 (provider call) and 292/308/314 (follow-up reply); each    *)
(* action below is the code between two consecutive awaits.                *)
(*                                                                         *)
(* Spec        the program: every invocation of generate_image.            *)
(* SpecLedger  the two UserManager writers under their only call site,     *)
(*             lines 287-296.  In Spec no request arrives there: line 265  *)
(*             evaluates asyncio.BytesIO, a name the asyncio package does  *)
(*             not define, so the attribute lookup raises AttributeError   *)
(*             and control passes to the handler of line 313.              *)
(* SpecFaults  Spec with the two calls outside the try of line 255 that    *)
(*             can raise: the quota read (236) and defer (253).            *)
(* SpecAdmission  the checks of lines 227 and 236 on drawn timestamps and  *)
(*             rows.                                                       *)
(* SpecFrame   the steps of Spec and of SpecLedger in every order.         *)
(* SpecDay     lines 287-296 and the loop reset_daily_limits over days.    *)
(***************************************************************************)
EXTENDS Integers, Sequences, FiniteSets

\* ------------------------------------------------------------------ bounds
NumUsers == 2
NumRequests == 3
TickSeconds == 15
MaxTime == 45
DayTickHours == 12
MaxDays == 2
DayRequests == 2

\* ------------------------------------------------------- program constants
CooldownSeconds == 45
DailyLimit == 25
ResetHours == 24
ResetSeconds == ResetHours * 3600

Users == 1..NumUsers
Requests == 1..NumRequests

\* Python's None, for the values that are numbers otherwise
None == -1

VARIABLES
    now,         \* time.time() / datetime.now(), in seconds
    cooldowns,   \* the module-level dict: user -> time of set_cooldown, None when absent
    users,       \* table users: user -> row
    images,      \* table images: the rows in insertion order
    seq,         \* sqlite_sequence of table images: largest id ever given out
    pc,          \* where each invocation of generate_image stands
    ruser,       \* interaction.user.id of the invocation
    admittedAt,  \* time at which the invocation passed both admission checks
    seen,        \* stats['images_generated'] read by check_daily_limit for the invocation
    result,      \* what generate_image_hf gave the invocation
    called,      \* the invocation has started the provider call
    sent,        \* number of messages sent to the caller of the invocation
    solo,        \* no other invocation of the same user was in flight when this one arrived
    nextReset    \* time of the next iteration of reset_daily_limits

vars == <<now, cooldowns, users, images, seq, pc, ruser, admittedAt, seen,
          result, called, sent, solo, nextReset>>

reqvars == <<pc, ruser, admittedAt, seen, result, called, sent, solo>>

\* ---------------------------------------------------------------- database
\* the row get_user_stats substitutes when the user has none
NoRow == [present |-> FALSE, images_generated |-> 0, last_used |-> None, total_usage |-> 0]

Row(n, t) == [present |-> TRUE, images_generated |-> n, last_used |-> t, total_usage |-> n]

\* bot_data.db outlives the process and its tables are created only when
\* absent: a user starts without a row, or with the row of a day on which
\* the daily count stands at the limit.
InitialRows == {NoRow, Row(DailyLimit, 0)}

get_user_stats(user_id) ==
    IF users[user_id].present
    THEN [images_generated |-> users[user_id].images_generated,
          last_used |-> users[user_id].last_used,
          total_usage |-> users[user_id].total_usage]
    ELSE [images_generated |-> 0, last_used |-> None, total_usage |-> 0]

\* a plausible slip: the row is replaced by a first-use row, the stored counts are not read
update_user_usage_replace(user_id) ==
    [users EXCEPT ![user_id] = Row(1, now)]

\* INSERT OR REPLACE with both counters read back by a sub-select and raised by one
update_user_usage(user_id) ==
    [users EXCEPT ![user_id] =
        [present |-> TRUE,
         images_generated |-> (IF users[user_id].present THEN users[user_id].images_generated ELSE 0) + 1,
         last_used |-> now,
         total_usage |-> (IF users[user_id].present THEN users[user_id].total_usage ELSE 0) + 1]]

MaxId(S) == IF S = {} THEN 0 ELSE CHOOSE m \in S : \A x \in S : x <= m

\* INTEGER PRIMARY KEY AUTOINCREMENT: one more than the largest id the table ever held
next_id ==
    MaxId({seq} \cup {images[i].id : i \in 1..Len(images)}) + 1

\* a plausible slip: the values are bound one column early and user_id lands in id
log_image_generation_positional(user_id) ==
    [images |-> Append(images, [id |-> user_id, user_id |-> user_id, timestamp |-> now]),
     seq |-> MaxId({seq, user_id})]

\* INSERT INTO images: the new row list and the new sqlite_sequence (prompt,
\* model and guild_id are stored with the row and read by no decision)
log_image_generation(user_id) ==
    [images |-> Append(images, [id |-> next_id, user_id |-> user_id, timestamp |-> now]),
     seq |-> next_id]

\* --------------------------------------------------------------- cooldowns
\* a plausible slip: the end of the window is counted in
check_cooldown_inclusive(user_id, cooldown_seconds) ==
    IF cooldowns[user_id] # None /\ now - cooldowns[user_id] <= cooldown_seconds
    THEN cooldown_seconds - (now - cooldowns[user_id])
    ELSE None

\* lines 156-162: the seconds left of the window, or None
check_cooldown(user_id, cooldown_seconds) ==
    IF cooldowns[user_id] # None /\ now - cooldowns[user_id] < cooldown_seconds
    THEN cooldown_seconds - (now - cooldowns[user_id])
    ELSE None

\* a plausible slip: the timestamp is written under every key
set_cooldown_all(user_id) == [u \in Users |-> now]

\* lines 164-166
set_cooldown(user_id) == [cooldowns EXCEPT ![user_id] = now]

\* Python truthiness of an Optional[float]
Truthy(x) == x # None /\ x # 0

check_daily_limit(user_id, limit) ==
    get_user_stats(user_id).images_generated >= limit

\* ------------------------------------------------------------------ states
Terminal == {"rejected_cooldown", "rejected_daily", "failed_provider",
             "failed_unexpected", "delivered"}
InFlight == {"deferring", "generating", "accounted"}

\* an exception left generate_image: discord.py hands it to the on_error of the
\* command tree, which logs it. The coroutine of lines 510-516 is stored under
\* the name on_app_command_error, an event the library never dispatches, so
\* nothing is sent to the caller.
Crashed == "crashed"
Ended == Terminal \cup {Crashed}

Others(r, u) == {q \in Requests \ {r} : ruser[q] = u /\ pc[q] \in InFlight}

\* invocations are numbered in the order in which they arrive, and users
\* whose rows and timestamps are equal are numbered in the order of their
\* first invocation
Arrives(r, u) ==
    /\ pc[r] = "idle"
    /\ \A q \in Requests : q < r => pc[q] # "idle"
    /\ \A v \in Users : (v < u /\ users[v] = users[u] /\ cooldowns[v] = cooldowns[u])
                          => \E q \in Requests : pc[q] # "idle" /\ ruser[q] = v

\* no invocation yet, no image logged
Started ==
    /\ images = <<>>
    /\ seq = 0
    /\ pc = [r \in Requests |-> "idle"]
    /\ ruser = [r \in Requests |-> 0]
    /\ admittedAt = [r \in Requests |-> None]
    /\ seen = [r \in Requests |-> None]
    /\ result = [r \in Requests |-> "pending"]
    /\ called = [r \in Requests |-> FALSE]
    /\ sent = [r \in Requests |-> 0]
    /\ solo = [r \in Requests |-> TRUE]

\* users are numbered with the rows at the limit last
SortedRows ==
    \A u, v \in Users : u < v => users[u].images_generated <= users[v].images_generated

\* the process has started; the table is as the database file holds it, and
\* the next iteration of reset_daily_limits is a day away
Init ==
    /\ Started
    /\ now = 0
    /\ cooldowns = [u \in Users |-> None]
    /\ users \in [Users -> InitialRows]
    /\ SortedRows
    /\ nextReset = ResetSeconds

\* -------------------------------------------------- generate_image, Spec
\* a plausible slip: the window is restarted by the rejected attempt
RejectCooldown_restart(r, u) ==
    /\ Arrives(r, u)
    /\ Truthy(check_cooldown(u, CooldownSeconds))
    /\ pc' = [pc EXCEPT ![r] = "rejected_cooldown"]
    /\ ruser' = [ruser EXCEPT ![r] = u]
    /\ solo' = [solo EXCEPT ![r] = Others(r, u) = {}]
    /\ sent' = [sent EXCEPT ![r] = @ + 1]
    /\ cooldowns' = set_cooldown(u)
    /\ UNCHANGED <<now, users, images, seq, admittedAt, seen, result, called, nextReset>>

\* lines 224-233: the user is inside the window; reply and return
RejectCooldown(r, u) ==
    /\ Arrives(r, u)
    /\ Truthy(check_cooldown(u, CooldownSeconds))
    /\ pc' = [pc EXCEPT ![r] = "rejected_cooldown"]
    /\ ruser' = [ruser EXCEPT ![r] = u]
    /\ solo' = [solo EXCEPT ![r] = Others(r, u) = {}]
    /\ sent' = [sent EXCEPT ![r] = @ + 1]
    /\ UNCHANGED <<now, cooldowns, users, images, seq, admittedAt, seen, result, called, nextReset>>

\* a plausible slip: the daily count is tested before the cooldown
RejectDaily_first(r, u) ==
    /\ Arrives(r, u)
    /\ check_daily_limit(u, DailyLimit)
    /\ pc' = [pc EXCEPT ![r] = "rejected_daily"]
    /\ ruser' = [ruser EXCEPT ![r] = u]
    /\ solo' = [solo EXCEPT ![r] = Others(r, u) = {}]
    /\ seen' = [seen EXCEPT ![r] = get_user_stats(u).images_generated]
    /\ sent' = [sent EXCEPT ![r] = @ + 1]
    /\ UNCHANGED <<now, cooldowns, users, images, seq, admittedAt, result, called, nextReset>>

\* lines 224-241: outside the window, daily count at the limit; reply and return
RejectDaily(r, u) ==
    /\ Arrives(r, u)
    /\ ~Truthy(check_cooldown(u, CooldownSeconds))
    /\ check_daily_limit(u, DailyLimit)
    /\ pc' = [pc EXCEPT ![r] = "rejected_daily"]
    /\ ruser' = [ruser EXCEPT ![r] = u]
    /\ solo' = [solo EXCEPT ![r] = Others(r, u) = {}]
    /\ seen' = [seen EXCEPT ![r] = get_user_stats(u).images_generated]
    /\ sent' = [sent EXCEPT ![r] = @ + 1]
    /\ UNCHANGED <<now, cooldowns, users, images, seq, admittedAt, result, called, nextReset>>

\* lines 224-253: both checks pass; the handler awaits interaction.response.defer
Admit(r, u) ==
    /\ Arrives(r, u)
    /\ ~Truthy(check_cooldown(u, CooldownSeconds))
    /\ ~check_daily_limit(u, DailyLimit)
    /\ pc' = [pc EXCEPT ![r] = "deferring"]
    /\ ruser' = [ruser EXCEPT ![r] = u]
    /\ solo' = [solo EXCEPT ![r] = Others(r, u) = {}]
    /\ seen' = [seen EXCEPT ![r] = get_user_stats(u).images_generated]
    /\ admittedAt' = [admittedAt EXCEPT ![r] = now]
    /\ UNCHANGED <<now, cooldowns, users, images, seq, result, called, sent, nextReset>>

\* a plausible slip: the cooldown is recorded before the daily count is read
QuotaReadFails_stamped(r, u) ==
    /\ Arrives(r, u)
    /\ ~Truthy(check_cooldown(u, CooldownSeconds))
    /\ pc' = [pc EXCEPT ![r] = Crashed]
    /\ ruser' = [ruser EXCEPT ![r] = u]
    /\ solo' = [solo EXCEPT ![r] = Others(r, u) = {}]
    /\ cooldowns' = set_cooldown(u)
    /\ UNCHANGED <<now, users, images, seq, admittedAt, seen, result, called, sent, nextReset>>

\* lines 236, 169-171, 105-117: outside the window, the SELECT of
\* get_user_stats raises sqlite3.Error; the call is outside the try of line 255
QuotaReadFails(r, u) ==
    /\ Arrives(r, u)
    /\ ~Truthy(check_cooldown(u, CooldownSeconds))
    /\ pc' = [pc EXCEPT ![r] = Crashed]
    /\ ruser' = [ruser EXCEPT ![r] = u]
    /\ solo' = [solo EXCEPT ![r] = Others(r, u) = {}]
    /\ UNCHANGED <<now, cooldowns, users, images, seq, admittedAt, seen, result, called, sent, nextReset>>

\* line 253: interaction.response.defer raises (the interaction has expired,
\* the request to Discord fails); the call is outside the try of line 255
DeferFails(r) ==
    /\ pc[r] = "deferring"
    /\ pc' = [pc EXCEPT ![r] = Crashed]
    /\ UNCHANGED <<now, cooldowns, users, images, seq, ruser, admittedAt, seen, result, called, sent, solo, nextReset>>

\* lines 253-260: defer has returned; record the cooldown and start the provider call
Deferred(r) ==
    /\ pc[r] = "deferring"
    /\ cooldowns' = set_cooldown(ruser[r])
    /\ called' = [called EXCEPT ![r] = TRUE]
    /\ pc' = [pc EXCEPT ![r] = "generating"]
    /\ UNCHANGED <<now, users, images, seq, ruser, admittedAt, seen, result, sent, solo, nextReset>>

\* lines 204-206, 260-267, 313-317: status 200 with a body; building the
\* discord.File raises AttributeError at line 265, the handler of line 313 replies
ProviderReturnsBytes(r) ==
    /\ pc[r] = "generating"
    /\ result' = [result EXCEPT ![r] = "bytes"]
    /\ pc' = [pc EXCEPT ![r] = "failed_unexpected"]
    /\ sent' = [sent EXCEPT ![r] = @ + 1]
    /\ UNCHANGED <<now, cooldowns, users, images, seq, ruser, admittedAt, seen, called, solo, nextReset>>

\* a plausible slip: the failed attempt gives the cooldown back
ProviderReturnsEmpty_refund(r) ==
    /\ pc[r] = "generating"
    /\ result' = [result EXCEPT ![r] = "empty"]
    /\ pc' = [pc EXCEPT ![r] = "failed_provider"]
    /\ sent' = [sent EXCEPT ![r] = @ + 1]
    /\ cooldowns' = [cooldowns EXCEPT ![ruser[r]] = None]
    /\ UNCHANGED <<now, users, images, seq, ruser, admittedAt, seen, called, solo, nextReset>>

\* lines 204-206, 260-262, 307-311: status 200 with an empty body, b'' is falsy
ProviderReturnsEmpty(r) ==
    /\ pc[r] = "generating"
    /\ result' = [result EXCEPT ![r] = "empty"]
    /\ pc' = [pc EXCEPT ![r] = "failed_provider"]
    /\ sent' = [sent EXCEPT ![r] = @ + 1]
    /\ UNCHANGED <<now, cooldowns, users, images, seq, ruser, admittedAt, seen, called, solo, nextReset>>

\* a plausible slip: the attempt is charged although nothing was produced
ProviderFails_charged(r) ==
    /\ pc[r] = "generating"
    /\ result' = [result EXCEPT ![r] = "error"]
    /\ pc' = [pc EXCEPT ![r] = "failed_provider"]
    /\ sent' = [sent EXCEPT ![r] = @ + 1]
    /\ users' = update_user_usage(ruser[r])
    /\ UNCHANGED <<now, cooldowns, images, seq, ruser, admittedAt, seen, called, solo, nextReset>>

\* lines 207-213, 260-262, 307-311: another status or an exception, None
ProviderFails(r) ==
    /\ pc[r] = "generating"
    /\ result' = [result EXCEPT ![r] = "error"]
    /\ pc' = [pc EXCEPT ![r] = "failed_provider"]
    /\ sent' = [sent EXCEPT ![r] = @ + 1]
    /\ UNCHANGED <<now, cooldowns, users, images, seq, ruser, admittedAt, seen, called, solo, nextReset>>

\* a plausible slip: the lifetime counter is cleared with the daily one
reset_daily_usage_total ==
    [u \in Users |-> IF users[u].present
                      THEN [users[u] EXCEPT !.images_generated = 0, !.total_usage = 0]
                      ELSE users[u]]

\* UPDATE users SET images_generated = 0
reset_daily_usage ==
    [u \in Users |-> IF users[u].present
                      THEN [users[u] EXCEPT !.images_generated = 0]
                      ELSE users[u]]

\* lines 482-487: an iteration of the loop that on_ready started (line 183);
\* the next one is due ResetHours later
Reset ==
    /\ now >= nextReset
    /\ users' = reset_daily_usage
    /\ nextReset' = nextReset + ResetSeconds
    /\ UNCHANGED <<now, cooldowns, images, seq, reqvars>>

\* the clock, in steps of TickSeconds; an iteration of reset_daily_limits
\* that is due runs first
Tick ==
    /\ now < nextReset
    /\ now + TickSeconds <= MaxTime
    /\ now' = now + TickSeconds
    /\ UNCHANGED <<cooldowns, users, images, seq, reqvars, nextReset>>

Next ==
    \/ \E r \in Requests, u \in Users : RejectCooldown(r, u)
    \/ \E r \in Requests, u \in Users : RejectDaily(r, u)
    \/ \E r \in Requests, u \in Users : Admit(r, u)
    \/ \E r \in Requests : Deferred(r)
    \/ \E r \in Requests : ProviderReturnsBytes(r)
    \/ \E r \in Requests : ProviderReturnsEmpty(r)
    \/ \E r \in Requests : ProviderFails(r)
    \/ Tick

Spec == Init /\ [][Next]_vars

\* ------------------------------------- generate_image with failing awaits
NextFaults ==
    \/ Next
    \/ \E r \in Requests, u \in Users : QuotaReadFails(r, u)
    \/ \E r \in Requests : DeferFails(r)

\* a table that holds the row of one user at least and lacks that of another
InitFaults ==
    /\ Init
    /\ ~users[1].present
    /\ users[NumUsers].present

SpecFaults == InitFaults /\ [][NextFaults]_vars

\* ------------------------------------ lines 287-296 of generate_image, SpecLedger
\* an invocation that holds the file and the embed reaches line 288
AtAccounting(r, u) ==
    /\ Arrives(r, u)
    /\ ruser' = [ruser EXCEPT ![r] = u]
    /\ result' = [result EXCEPT ![r] = "bytes"]
    /\ called' = [called EXCEPT ![r] = TRUE]
    /\ solo' = [solo EXCEPT ![r] = Others(r, u) = {}]

\* lines 287-289: both statements commit; the handler awaits followup.send
Account(r, u) ==
    /\ AtAccounting(r, u)
    /\ users' = update_user_usage(u)
    /\ images' = log_image_generation(u).images
    /\ seq' = log_image_generation(u).seq
    /\ pc' = [pc EXCEPT ![r] = "accounted"]
    /\ UNCHANGED <<now, cooldowns, admittedAt, seen, sent, nextReset>>

\* lines 288-289, 313-317: the counters are committed, the INSERT into images
\* raises sqlite3.Error; the handler of line 313 replies
AccountLogFails(r, u) ==
    /\ AtAccounting(r, u)
    /\ users' = update_user_usage(u)
    /\ pc' = [pc EXCEPT ![r] = "failed_unexpected"]
    /\ sent' = [sent EXCEPT ![r] = @ + 1]
    /\ UNCHANGED <<now, cooldowns, images, seq, admittedAt, seen, nextReset>>

\* lines 288, 313-317: the statement of update_user_usage raises sqlite3.Error
AccountUpdateFails(r, u) ==
    /\ AtAccounting(r, u)
    /\ pc' = [pc EXCEPT ![r] = "failed_unexpected"]
    /\ sent' = [sent EXCEPT ![r] = @ + 1]
    /\ UNCHANGED <<now, cooldowns, users, images, seq, admittedAt, seen, nextReset>>

\* lines 291-296: the file and the embed are sent
Deliver(r) ==
    /\ pc[r] = "accounted"
    /\ pc' = [pc EXCEPT ![r] = "delivered"]
    /\ sent' = [sent EXCEPT ![r] = @ + 1]
    /\ UNCHANGED <<now, cooldowns, users, images, seq, ruser, admittedAt, seen, result, called, solo, nextReset>>

\* init_db on a new installation: both tables empty, and the first
\* iteration of reset_daily_limits has run on the empty table
InitLedger ==
    /\ Started
    /\ now = 0
    /\ cooldowns = [u \in Users |-> None]
    /\ users = [u \in Users |-> NoRow]
    /\ nextReset = ResetSeconds

NextLedger ==
    \/ \E r \in Requests, u \in Users : Account(r, u)
    \/ \E r \in Requests, u \in Users : AccountLogFails(r, u)
    \/ \E r \in Requests, u \in Users : AccountUpdateFails(r, u)
    \/ \E r \in Requests : Deliver(r)
    \/ Tick

SpecLedger == InitLedger /\ [][NextLedger]_vars

\* ------------------------- lines 224-253 of generate_image, SpecAdmission
\* the checks of lines 227 and 236 on every pair of their inputs: each user
\* without a timestamp or with one taken at the start, without a row or
\* with a row at the limit
Stamps == {None, 0}

InitAdmission ==
    /\ Started
    /\ now = 0
    /\ cooldowns \in [Users -> Stamps]
    /\ users \in [Users -> InitialRows]
    /\ SortedRows
    /\ nextReset = ResetSeconds

NextAdmission ==
    \/ \E r \in Requests, u \in Users : RejectCooldown(r, u)
    \/ \E r \in Requests, u \in Users : RejectDaily(r, u)
    \/ \E r \in Requests, u \in Users : Admit(r, u)
    \/ \E r \in Requests, u \in Users : QuotaReadFails(r, u)
    \/ Tick

SpecAdmission == InitAdmission /\ [][NextAdmission]_vars

\* ------------------------ admission and accounting together, SpecFrame
\* every step that generate_image takes for a request, those of lines
\* 287-296 included, in every order; the requests come in one burst, within
\* one reading of the clock
NextFrame ==
    \/ \E r \in Requests, u \in Users : RejectCooldown(r, u)
    \/ \E r \in Requests, u \in Users : RejectDaily(r, u)
    \/ \E r \in Requests, u \in Users : Admit(r, u)
    \/ \E r \in Requests : Deferred(r)
    \/ \E r \in Requests : ProviderReturnsBytes(r)
    \/ \E r \in Requests : ProviderReturnsEmpty(r)
    \/ \E r \in Requests : ProviderFails(r)
    \/ \E r \in Requests, u \in Users : Account(r, u)
    \/ \E r \in Requests, u \in Users : AccountLogFails(r, u)
    \/ \E r \in Requests, u \in Users : AccountUpdateFails(r, u)
    \/ \E r \in Requests : Deliver(r)

SpecFrame == InitFaults /\ [][NextFrame]_vars

\* ------------------------------------- reset_daily_limits, SpecDay
\* the calendar day of an instant and the time of day, in seconds; the clock
\* counts from a midnight
Day(t) == t \div (24 * 3600)
TimeOfDay(t) == t % (24 * 3600)

\* the process is started at midnight or at noon
StartTimes == {0, 12 * 3600}

Earlier(a, b) == IF a <= b THEN a ELSE b

\* lines 174-183: on_ready has created the tables and started
\* reset_daily_limits, whose first iteration has run on the empty table
InitDay ==
    /\ Started
    /\ now \in StartTimes
    /\ cooldowns = [u \in Users |-> None]
    /\ users = [u \in Users |-> NoRow]
    /\ nextReset = now + ResetSeconds

\* the clock, in steps of DayTickHours; an iteration of reset_daily_limits
\* that is due runs first
TickDay ==
    /\ now < nextReset
    /\ now < MaxDays * 24 * 3600
    /\ now' = Earlier(now + DayTickHours * 3600, nextReset)
    /\ UNCHANGED <<cooldowns, users, images, seq, reqvars, nextReset>>

NextDay ==
    \/ \E r \in 1..DayRequests, u \in Users : Account(r, u)
    \/ \E r \in 1..DayRequests, u \in Users : AccountLogFails(r, u)
    \/ \E r \in 1..DayRequests, u \in Users : AccountUpdateFails(r, u)
    \/ \E r \in Requests : Deliver(r)
    \/ Reset
    \/ TickDay

SpecDay == InitDay /\ [][NextDay]_vars

\* ------------------------------------------------------------ observations
DailyCount(u) == get_user_stats(u).images_generated
TotalUsage(u) == get_user_stats(u).total_usage
RecordsOf(u) == {i \in 1..Len(images) : images[i].user_id = u}
Issued(u) == {r \in Requests : pc[r] # "idle" /\ ruser[r] = u}
Rejected == {"rejected_cooldown", "rejected_daily"}

\* ------------------------------------------------------------------ claims

\* C1: a generate request rejected at admission, by the cooldown check or by
\* the daily-quota check, changes nothing: the step that rejects it leaves the
\* cooldown timestamps, the users table and the images log as they were, and
\* the provider is never called for it.
C1_RejectionChangesNothing ==
    /\ [](\A r \in Requests : pc[r] \in Rejected => ~called[r] /\ result[r] = "pending")
    /\ [][\A r \in Requests :
            (pc[r] = "idle" /\ pc'[r] \in Rejected) =>
                /\ cooldowns' = cooldowns
                /\ users' = users
                /\ images' = images
                /\ seq' = seq
                /\ called' = called]_vars

\* one request rejected for cooldown and one rejected for daily quota
C1_Witness ==
    /\ \E r \in Requests : pc[r] = "rejected_cooldown"
    /\ \E r \in Requests : pc[r] = "rejected_daily"

\* every invocation of the user so far arrived when none of the user's was in
\* flight and outside the cooldown window, all have ended, and the provider
\* answered each admitted one with artifact bytes
SequentialCalls(u) ==
    \A r \in Issued(u) :
        /\ solo[r]
        /\ pc[r] \in Terminal \ {"rejected_cooldown"}
        /\ called[r] => result[r] = "bytes"

\* C2: with daily limit L and no reset, the sequential calls of a user, each
\* after the cooldown and each with a successful provider response, succeed
\* while the count they find is below L and raise it by one each; a call that
\* finds the count at L is rejected for daily quota and leaves it there.
C2_SequentialCallsCountToLimit ==
    \A u \in Users : SequentialCalls(u) =>
        \A r \in Issued(u) :
            /\ seen[r] < DailyLimit => pc[r] = "delivered"
            /\ seen[r] >= DailyLimit => pc[r] = "rejected_daily"
            /\ DailyCount(u) = seen[r] +
                 Cardinality({q \in Issued(u) : q >= r /\ seen[q] < DailyLimit})

\* C3: a request that passed admission and whose provider call returned
\* artifact bytes does not end in a failure outcome: it ends delivered, with
\* one message to the caller, the user's counters raised and a record stored.
C3_BytesEndDelivered ==
    \A r \in Requests : (result[r] = "bytes" /\ pc[r] \in Terminal) =>
        /\ pc[r] = "delivered"
        /\ sent[r] = 1
        /\ DailyCount(ruser[r]) >= 1
        /\ TotalUsage(ruser[r]) >= 1
        /\ RecordsOf(ruser[r]) # {}

\* C4: no two requests of one user are both admitted less than one cooldown
\* window apart.
C4_AdmissionsOneWindowApart ==
    \A r, q \in Requests :
        (r # q /\ ruser[r] = ruser[q] /\ admittedAt[r] # None /\ admittedAt[q] # None
            /\ admittedAt[r] <= admittedAt[q])
        => admittedAt[q] - admittedAt[r] >= CooldownSeconds

\* C6: N requests of a user that ran lines 288-289 to the end raised the
\* user's daily counter by exactly N, whatever the order in which the
\* requests of all users took their turn: no increment is lost.
C6_NoLostIncrement ==
    \A u \in Users :
        (\A r \in Issued(u) : pc[r] \in {"accounted", "delivered"})
        => /\ DailyCount(u) = Cardinality(Issued(u))
           /\ TotalUsage(u) = Cardinality(Issued(u))

\* a user with two accounted requests and a request of another user between them
C6_Witness ==
    \E u \in Users :
        /\ Cardinality(Issued(u)) = 2
        /\ \A r \in Issued(u) : pc[r] \in {"accounted", "delivered"}
        /\ DailyCount(u) = 2
        /\ \E r \in Requests : pc[r] # "idle" /\ ruser[r] # u
                               /\ \E a, b \in Issued(u) : a < r /\ r < b

\* C7: a request that was admitted and whose provider call failed ends in the
\* failure outcome with one message; none of its steps, from admission to the
\* failure reply, changes the users table or the images log.
C7_ProviderFailureChargesNothing ==
    /\ [](\A r \in Requests : result[r] = "error" =>
            pc[r] = "failed_provider" /\ sent[r] = 1)
    /\ [][\A r \in Requests :
            (pc'[r] # pc[r] /\ pc'[r] \in {"deferring", "generating", "failed_provider"})
            => users' = users /\ images' = images /\ seq' = seq]_vars

\* an admitted request ended by a provider failure
C7_Witness ==
    \E r \in Requests :
        pc[r] = "failed_provider" /\ result[r] = "error" /\ admittedAt[r] # None

\* C8: usage counters are raised only after the image record has been stored:
\* in every state, also after a failed record write, a user's counters do not
\* exceed the number of the user's stored records.
C8_ChargedOnlyWhenStored ==
    \A u \in Users :
        /\ TotalUsage(u) <= Cardinality(RecordsOf(u))
        /\ DailyCount(u) <= Cardinality(RecordsOf(u))

\* C9: no two image records of a user carry the same id, and a user's records
\* carry strictly increasing ids in the order in which they were stored.
C9_IdsUniqueAndIncreasing ==
    \A i, j \in 1..Len(images) :
        (i < j /\ images[i].user_id = images[j].user_id) => images[i].id < images[j].id

\* two records of one user with a record of another user stored between them
C9_Witness ==
    \E i, j, k \in 1..Len(images) :
        /\ i < k /\ k < j
        /\ images[i].user_id = images[j].user_id
        /\ images[k].user_id # images[i].user_id

\* C10: the number of a newly stored record is the smallest integer greater
\* than every number given before to the same user, 1 for the user's first,
\* also when records of other users are stored in between.
C10_NumberedPerUser ==
    \A i \in 1..Len(images) :
        images[i].id =
            MaxId({images[j].id : j \in {k \in 1..(i - 1) : images[k].user_id = images[i].user_id}}) + 1

\* the global monthly quota of the specification: generate_image reads no such
\* limit and keeps no such count; the count of the month is the number of
\* image records stored
GlobalLimit == 0
globalCount == Len(images)

\* C11: a request that passes the cooldown check and the daily-quota check
\* while the global monthly count has reached the global limit is not
\* admitted; with a global limit of 0 no request is ever admitted.
C11_GlobalQuotaRejects ==
    [][\A r \in Requests :
        (pc[r] = "idle" /\ globalCount >= GlobalLimit) => pc'[r] # "deferring"]_vars

\* C12: within one calendar day the daily count of a user never decreases:
\* no step taken inside a day, after its first instant, lowers the
\* images_generated of a user whose count was last raised on that day.
C12_DailyCountMonotoneInDay ==
    [][\A u \in Users :
        (/\ Day(now') = Day(now)
         /\ TimeOfDay(now) # 0
         /\ users[u].present
         /\ Day(users[u].last_used) = Day(now))
        => DailyCount(u)' >= DailyCount(u)]_vars

\* C13: whatever step of a generate request fails, the request ends in one
\* of the terminal outcomes and the caller receives exactly one message for
\* it: never more than one, and one once the request has ended.
C13_OneOutcomeOneMessage ==
    \A r \in Requests :
        /\ sent[r] <= 1
        /\ pc[r] \in Ended => (pc[r] \in Terminal /\ sent[r] = 1)

\* C14: the cooldown is checked before the daily quota: a request of a user
\* who is inside the cooldown window is rejected for cooldown, also when the
\* user's daily count is at or over the limit, and the count is not read.
C14_CooldownCheckedFirst ==
    [][\A r \in Requests, u \in Users :
        (/\ pc[r] = "idle" /\ pc'[r] # "idle" /\ ruser'[r] = u
         /\ Truthy(check_cooldown(u, CooldownSeconds)))
        => (pc'[r] = "rejected_cooldown" /\ seen'[r] = None)]_vars

\* a request rejected for cooldown whose user is at the daily limit
C14_Witness ==
    \E r \in Requests :
        /\ pc[r] = "rejected_cooldown"
        /\ check_daily_limit(ruser[r], DailyLimit)

\* C15: the cooldown of a user is recorded before the provider is called for
\* the user's request and is not given back when the call fails: a request
\* for which the provider was called leaves a timestamp not older than its
\* admission, and a further request of the user less than one window after
\* that admission is rejected for cooldown, whatever became of the first.
C15_CooldownKeptOnFailure ==
    /\ [](\A q \in Requests : called[q] => cooldowns[ruser[q]] >= admittedAt[q])
    /\ [][\A r, q \in Requests :
            (/\ pc[r] = "idle" /\ pc'[r] # "idle"
             /\ called[q] /\ ruser[q] = ruser'[r]
             /\ now - admittedAt[q] < CooldownSeconds)
            => pc'[r] = "rejected_cooldown"]_vars

\* a user with two requests: one admitted and ended by a provider failure,
\* the later one rejected for cooldown
C15_Witness ==
    \E q, r \in Requests :
        /\ q < r /\ ruser[q] = ruser[r] /\ Issued(ruser[q]) = {q, r}
        /\ pc[q] = "failed_provider"
        /\ pc[r] = "rejected_cooldown"

\* C16: check_cooldown returns None exactly when the user has no timestamp or
\* at least W seconds have passed since it, and otherwise the strictly
\* positive W minus the seconds passed; so the truthiness test of line 228
\* rejects every request inside the window, and a request exactly W seconds
\* after the timestamp is not rejected for cooldown.
C16_CheckCooldown ==
    /\ [](\A u \in Users :
            LET left == check_cooldown(u, CooldownSeconds)
                elapsed == now - cooldowns[u]
            IN  /\ left = None <=> (cooldowns[u] = None \/ elapsed >= CooldownSeconds)
                /\ left # None => (left = CooldownSeconds - elapsed /\ left > 0)
                /\ Truthy(left) <=> (cooldowns[u] # None /\ elapsed < CooldownSeconds))
    /\ [][\A r \in Requests, u \in Users :
            (pc[r] = "idle" /\ pc'[r] # "idle" /\ ruser'[r] = u /\ cooldowns[u] # None)
            => /\ now - cooldowns[u] < CooldownSeconds => pc'[r] = "rejected_cooldown"
               /\ now - cooldowns[u] >= CooldownSeconds => pc'[r] # "rejected_cooldown"]_vars

\* a request admitted exactly one window after the timestamp of its user
C16_Witness ==
    \E r \in Requests :
        /\ pc[r] = "deferring"
        /\ cooldowns[ruser[r]] # None
        /\ admittedAt[r] - cooldowns[ruser[r]] = CooldownSeconds

\* C17: a request whose daily-quota read fails in the backing store is not
\* admitted: the step leaves the cooldown timestamps, the users table and
\* the images log as they were, the request goes no further, and the
\* provider is never called for it.
C17_FailedQuotaReadAdmitsNothing ==
    /\ [](\A r \in Requests : (pc[r] = Crashed /\ admittedAt[r] = None) =>
            ~called[r] /\ result[r] = "pending")
    /\ [][\A r \in Requests :
            /\ (pc[r] = "idle" /\ pc'[r] = Crashed) =>
                    /\ cooldowns' = cooldowns
                    /\ users' = users
                    /\ images' = images
                    /\ seq' = seq
                    /\ admittedAt'[r] = None
            /\ pc[r] = Crashed => pc'[r] = Crashed]_vars

\* a request ended by a failed read of the daily count
C17_Witness ==
    \E r \in Requests : pc[r] = Crashed /\ admittedAt[r] = None

\* C18: the daily count of a user never exceeds the user's lifetime count,
\* and the lifetime count is never lowered by any step, a reset included.
C18_DailyWithinTotal ==
    /\ [](\A u \in Users : DailyCount(u) <= TotalUsage(u))
    /\ [][\A u \in Users : TotalUsage(u)' >= TotalUsage(u)]_vars

\* a user counted before a reset and again after it
C18_Witness ==
    \E u \in Users : 1 <= DailyCount(u) /\ DailyCount(u) < TotalUsage(u)

\* C19: the steps taken for a request of one user, at admission and at
\* accounting, leave the cooldown timestamp and the row (images_generated,
\* total_usage, last_used) of every other user as they were.
C19_OtherUsersUntouched ==
    [][\A r \in Requests, b \in Users :
        (pc'[r] # pc[r] /\ ruser'[r] # b)
        => (cooldowns'[b] = cooldowns[b] /\ users'[b] = users[b])]_vars

\* one user admitted, stamped and counted while another, who has made no
\* request, keeps the row at the limit and no timestamp
C19_Witness ==
    \E a, b \in Users :
        /\ a # b
        /\ cooldowns[a] # None /\ TotalUsage(a) >= 1
        /\ Issued(b) = {} /\ cooldowns[b] = None /\ users[b] = Row(DailyLimit, 0)

=============================================================================
